---- MODULE Spec2Model ----
(***************************************************************************)
(* A model of greensim's discrete-event core (src/greensim/__init__.py):   *)
(* the Simulator (event heap, clock, run/step/stop), the Process green     *)
(* threads (advance, pause, resume, interrupt), the Queue and the          *)
(* Resource.  Virtual time is modelled by integers; a process body is the  *)
(* most general client: when it is the current greenlet it may call any    *)
(* operation of the module.                                                *)
(***************************************************************************)
EXTENDS Integers, FiniteSets, Sequences, TLC

\* ------------------------------------------------------------------ bounds
NProc == 2          \* processes created during one simulation
MaxCounter == 4     \* events scheduled during one simulation
MaxTime == 1        \* largest timestamp of a scheduling call
NumInstances == 2   \* Resource(num_instances)

NoId == -1          \* counter_stop_event = None

Procs == 1..NProc
InitClocks == (0 - 1)..0          \* Simulator(ts_now=...)
Delays == {0 - 1, 0, 1}           \* a delay in the past, no delay, a delay
Counts == 0..(NumInstances + 1)   \* num_instances of take/release
Queues == {"q", "r", "pq", "s", "c"}   \* the Queue objects of the model

VARIABLES
    ts_now,       \* Simulator._ts_now
    events,       \* Simulator._events (the heap), a set of event records
    counter,      \* Simulator._counter
    is_running,   \* Simulator._is_running
    ctl,          \* where the main program is: "top", "run" (in run's loop), "step"
    stop_id,      \* run()'s local counter_stop_event
    cur,          \* the current greenlet: 0 is the simulator's, p a Process
    pstate,       \* per process: "unborn", "initial", "current", "advance",
                  \*   "pause", "join", "take", "wait", "select", "dead"
    pdata,        \* per process: id_wakeup while in advance, num_instances while in take
    required,     \* per process: local.__num_instances_required (0: not set)
    waiting,      \* Queue._waiting of the stand-alone queue ("q"), of the
                  \*   resource's queue ("r"), of a queue with a priority
                  \*   discipline ("pq") and of the signal's queue ("s"):
                  \*   sets of <<token, process>>
    qcounter,     \* Queue._counter of these queues
    is_on,        \* Signal._is_on
    free,         \* Resource._num_instances_free
    usage,        \* Resource._usage (0: no entry)
    inUse,        \* per process: the count of the `with resource.using(n)`
                  \*   block it is in (0: none; -n: still acquiring)
    past,         \* the last operation was a scheduling call into the past
                  \*   (a negative delay, or a moment before now)
    err,          \* the exception the last operation raised to its caller, or "none"
    lastEv,       \* the last event executed (popped uncancelled) by run() or step()
    pdue,         \* per process in advance: the clock value at the call + the delay
    intrAdv,      \* per process: the id_wakeup of the advance during which
                  \*   interrupt() was called on it, or NoId
    waitedOn,     \* some wait() found the signal on and returned at once
    woken,        \* the processes the last turn_on that found waiters has
                  \*   popped, in the order it has popped them
    passed,       \* the processes that have returned from a suspended
                  \*   wait() since then, in the order they did
    common_on,    \* _is_on of the Signal `common` of the select() call
    helper,       \* the processes select() has added to run wait_one
    selected,     \* what the select() call has returned: "none" while it
                  \*   has not, "empty" for [], "s" for [the signal]
    hproc,        \* the process that runs make_happen, the body happens() has
                  \*   made (0: none has been added)
    hphase,       \* where that body is: "none", "new" (not started), "loop"
                  \*   (in the advance of its loop), "done"
    hrest,        \* the values of `intervals` its loop has not consumed yet
    hdue,         \* its start time + the intervals it has consumed
    unresumed     \* per process: its suspensions minus the resumptions of them

vars == <<ts_now, events, counter, is_running, ctl, stop_id, cur, pstate, pdata,
          required, waiting, qcounter, is_on, free, usage, inUse, past, err,
          lastEv, pdue, intrAdv, waitedOn, woken, passed, common_on, helper,
          selected, hproc, hphase, hrest, hdue, unresumed>>

simVars == <<ts_now, events, counter, is_running>>
procVars == <<pstate, pdata, required>>
queueVars == <<waiting, qcounter, is_on>>
resVars == <<free, usage, inUse>>
ghostVars == <<lastEv, pdue, intrAdv, waitedOn, woken, passed>>
selVars == <<common_on, helper, selected>>
hapVars == <<hproc, hphase, hrest, hdue>>
balVars == <<unresumed>>

\* ------------------------------------------------------------------ events
NoEvent == [ts |-> 0, id |-> NoId, kind |-> "none", proc |-> 0, cancelled |-> TRUE]

\* _Event.__init__
Event(ts, id, kind, proc) ==
    [ts |-> ts, id |-> id, kind |-> kind, proc |-> proc, cancelled |-> FALSE]

LtTimestampOnly(e1, e2) == e1.ts < e2.ts

\* _Event.__lt__
Lt(e1, e2) == e1.ts < e2.ts \/ (e1.ts = e2.ts /\ e1.id < e2.id)

\* heappop(self._events): the event no other event is smaller than
IsHeapMin(e) == e \in events /\ \A f \in events : ~Lt(f, e)

ClockAfterPopOfAny(e, now) == IF e.ts = 0 THEN now ELSE e.ts

\* self._ts_now = event.timestamp or self._ts_now, where event.timestamp is
\* None for a cancelled event; `or` also discards a timestamp of 0.0
ClockAfterPop(e, now) ==
    IF e.cancelled THEN now
    ELSE IF e.ts = 0 THEN now ELSE e.ts

ValidDelayAny(delay) == TRUE

\* _schedule: if delay < 0.0: raise ValueError
ValidDelay(delay) == delay >= 0

\* _schedule: heappush(self._events, _Event(self._ts_now + delay, id_event, ...))
Pushed(evs, delay, kind, proc) ==
    evs \cup {Event(ts_now + delay, counter, kind, proc)}

\* _cancel / run's cancel-stop loop: the pending event of that identifier, if
\* any, is marked cancelled
Cancelled(evs, id) ==
    {IF e.id = id THEN [e EXCEPT !.cancelled = TRUE] ELSE e : e \in evs}

\* the bounds of the model: a scheduling call is made only while they allow it
CanSchedule(delay) ==
    delay >= 0 => (counter < MaxCounter /\ ts_now + delay <= MaxTime)

\* ------------------------------------------------------------------ contexts
\* code outside run(): the main program
AtTop == ctl = "top" /\ cur = 0
\* the body of process p is executing
InBody(p) == cur = p /\ pstate[p] = "current"

Suspended(p) ==
    pstate[p] \in {"advance", "pause", "join", "take", "wait", "select"}

\* a process gives control back to the simulator's greenlet (self._gr.switch(),
\* or the end of its body); step() then returns to the main program
CtlAfterYield == IF ctl = "step" THEN "top" ELSE ctl

TypeOK ==
    /\ ts_now \in (0 - 1)..MaxTime
    /\ counter \in 0..MaxCounter
    /\ is_running \in BOOLEAN
    /\ ctl \in {"top", "run", "step"}
    /\ cur \in 0..NProc
    /\ \A e \in events : e.id \in 0..(counter - 1) /\ e.ts \in (0 - 1)..MaxTime

Init ==
    /\ ts_now \in InitClocks
    /\ events = {}
    /\ counter = 0
    /\ is_running = FALSE
    /\ ctl = "top"
    /\ stop_id = NoId
    /\ cur = 0
    /\ pstate = [p \in Procs |-> "unborn"]
    /\ pdata = [p \in Procs |-> 0]
    /\ required = [p \in Procs |-> 0]
    /\ waiting = [q \in Queues |-> {}]
    /\ qcounter = [q \in Queues |-> 0]
    /\ is_on = TRUE
    /\ free = NumInstances
    /\ usage = [p \in Procs |-> 0]
    /\ inUse = [p \in Procs |-> 0]
    /\ past = FALSE
    /\ err = "none"
    /\ lastEv = NoEvent
    /\ pdue = [p \in Procs |-> 0]
    /\ intrAdv = [p \in Procs |-> NoId]
    /\ waitedOn = FALSE
    /\ woken = <<>>
    /\ passed = <<>>
    /\ common_on = FALSE
    /\ helper = {}
    /\ selected = "none"
    /\ hproc = 0
    /\ hphase = "none"
    /\ hrest = <<>>
    /\ hdue = 0
    /\ unresumed = [p \in Procs |-> 0]

\* ------------------------------------------------------------------ Simulator
\* Simulator._schedule: the delay is validated, then the event is pushed with
\* the next identifier
DoSchedule(delay, kind, proc) ==
    IF ValidDelay(delay)
    THEN /\ events' = Pushed(events, delay, kind, proc)
         /\ counter' = counter + 1
         /\ err' = "none"
    ELSE /\ err' = "ValueError"
         /\ UNCHANGED <<events, counter>>

\* code is running that may call the module: the main program outside run(),
\* or the body of the current process
InCode == AtTop \/ (cur # 0 /\ pstate[cur] = "current")

\* sim._schedule(delay, fn) with a plain function, by the main program
Schedule(delay) ==
    /\ AtTop
    /\ CanSchedule(delay)
    /\ past' = (delay < 0)
    /\ DoSchedule(delay, "fn", 0)
    /\ UNCHANGED <<ts_now, is_running, ctl, stop_id, cur, procVars, queueVars,
                   resVars, ghostVars, selVars, hapVars, balVars>>

\* sim._cancel(id) by the main program, which got id from _schedule
Cancel(id) ==
    /\ AtTop
    /\ \A e \in events : e.id = id => e.kind = "fn"
    /\ past' = FALSE
    /\ err' = "none"
    /\ events' = Cancelled(events, id)
    /\ UNCHANGED <<ts_now, counter, is_running, ctl, stop_id, cur, procVars,
                   queueVars, resVars, ghostVars, selVars, hapVars, balVars>>

\* Process(self, fn_process, self._gr): the next process object
NewProc ==
    CHOOSE p \in Procs :
        pstate[p] = "unborn" /\ \A q \in Procs : q < p => pstate[q] # "unborn"

\* Simulator.add_in (add is add_in(0.0))
DoAddIn(delay) ==
    /\ \E p \in Procs : pstate[p] = "unborn"
    /\ CanSchedule(delay)
    /\ DoSchedule(delay, "switch", NewProc)
    /\ pstate' = IF ValidDelay(delay)
                 THEN [pstate EXCEPT ![NewProc] = "initial"]
                 ELSE pstate
    /\ UNCHANGED <<ts_now, is_running, ctl, stop_id, cur, pdata, required,
                   queueVars, resVars, ghostVars, selVars, hapVars, balVars>>

AddIn(delay) ==
    /\ InCode
    /\ past' = (delay < 0)
    /\ DoAddIn(delay)

AddAtNoCheck(moment) ==
    /\ InCode
    /\ past' = (moment < ts_now)
    /\ DoAddIn(IF moment < ts_now THEN 0 ELSE moment - ts_now)

\* Simulator.add_at
AddAt(moment) ==
    /\ InCode
    /\ past' = (moment < ts_now)
    /\ IF moment - ts_now < 0
       THEN /\ err' = "ValueError"
            /\ UNCHANGED <<simVars, ctl, stop_id, cur, procVars, queueVars,
                           resVars, ghostVars, selVars, hapVars, balVars>>
       ELSE DoAddIn(moment - ts_now)

\* Simulator.stop
Stop ==
    /\ InCode
    /\ past' = FALSE
    /\ err' = "none"
    /\ is_running' = FALSE
    /\ UNCHANGED <<ts_now, events, counter, ctl, stop_id, cur, procVars,
                   queueVars, resVars, ghostVars, selVars, hapVars, balVars>>

\* Simulator.run, up to its loop: the stop event of a finite duration is
\* scheduled and its identifier remembered
Run(finite, duration) ==
    /\ AtTop
    /\ finite => CanSchedule(duration)
    /\ past' = (finite /\ duration < 0)
    /\ IF finite
       THEN DoSchedule(duration, "stop", 0)
       ELSE err' = "none" /\ UNCHANGED <<events, counter>>
    /\ IF finite /\ ~ValidDelay(duration)
       THEN UNCHANGED <<is_running, ctl, stop_id>>
       ELSE /\ is_running' = TRUE
            /\ ctl' = "run"
            /\ stop_id' = IF finite THEN counter ELSE NoId
    /\ UNCHANGED <<ts_now, cur, procVars, queueVars, resVars, ghostVars, selVars, hapVars, balVars>>

\* Simulator.run, after its loop: stop(), then the planned stop is cancelled
RunExit ==
    /\ ctl = "run" /\ cur = 0
    /\ ~(is_running /\ events # {})
    /\ past' = FALSE
    /\ err' = "none"
    /\ is_running' = FALSE
    /\ events' = IF stop_id # NoId THEN Cancelled(events, stop_id) ELSE events
    /\ ctl' = "top"
    /\ stop_id' = NoId
    /\ UNCHANGED <<ts_now, counter, cur, procVars, queueVars, resVars, ghostVars, selVars, hapVars, balVars>>

\* the processes _clear throws into: those a pending event (cancelled or not)
\* is a bound method of
ClearTargets == {e.proc : e \in {f \in events : f.kind \in {"switch", "throw"}}}

\* Simulator._clear, called by __exit__ and __del__ from the main program:
\* GreenletExit is thrown into each process that has an event in the heap,
\* which ends it; the heap is emptied and the clock set back to 0.0
Clear ==
    /\ AtTop
    /\ past' = FALSE
    /\ err' = "none"
    /\ pstate' = [p \in Procs |-> IF p \in ClearTargets THEN "dead" ELSE pstate[p]]
    /\ events' = {}
    /\ ts_now' = 0
    /\ UNCHANGED <<counter, is_running, ctl, stop_id, cur, pdata, required,
                   queueVars, resVars, ghostVars, selVars, hapVars, balVars>>

\* ------------------------------------------------------------------ Queue entries
OrderTokenReversed(c) == 0 - c

\* the default get_order_token: lambda counter: counter
OrderToken(c) == c

\* the classes of the priority discipline of the tests: local.name % 2, of
\* the name the joining process has given itself
Classes == {0, 1}

\* the factor of the class in the priority token: above every value the
\* join counter reaches (each join is made by a process an event resumed)
K == MaxCounter + 1

PriorityTokenNoClass(cls, c) == c

\* Queue(lambda counter: counter + K * (local.name % 2))
PriorityToken(cls, c) == c + K * cls

\* self._get_order_token(self._counter), evaluated in the joining process
TokenOf(q, cls, c) == IF q = "pq" THEN PriorityToken(cls, c) ELSE OrderToken(c)

\* Queue.is_empty
IsEmpty(q) == waiting[q] = {}

PeekLast(q) == CHOOSE w \in waiting[q] : \A x \in waiting[q] : w[1] >= x[1]

\* Queue.peek / heappop(self._waiting): the entry of the smallest order token
Peek(q) == CHOOSE w \in waiting[q] : \A x \in waiting[q] : w[1] <= x[1]

\* the processes that have an entry in queue q of w
QueuedIn(w, q) == {x[2] : x \in w[q]}

\* Queue.join up to pause(): the counter is incremented, the entry is pushed;
\* an entry is <<order token, process, rank of the join, class>>, the rank
\* and the class being kept to state the order of the joins
JoinedAs(q, p, cls) ==
    /\ qcounter' = [qcounter EXCEPT ![q] = @ + 1]
    /\ waiting' = [waiting EXCEPT ![q] =
          @ \cup {<<TokenOf(q, cls, qcounter[q] + 1), p, qcounter[q] + 1, cls>>}]

\* Queue.join up to pause(), for a queue of the default discipline
Joined(q, p) == JoinedAs(q, p, 0)

MustJoinAlways(on) == TRUE

\* Signal.wait: while not self.is_on
MustJoin(on) == ~on

\* ------------------------------------------------------------------ events' execution
\* where the main program is once the event's function has returned: in
\* run's loop, or back from step()
CtlAfter(c) == IF c = "step" THEN "top" ELSE c

\* _Event.execute of a cancelled event (a no-op) or of a plain function
ExecPlain(e, c) ==
    /\ e.cancelled \/ e.kind = "fn"
    /\ events' = events \ {e}
    /\ ctl' = CtlAfter(c)
    /\ err' = "none"
    /\ UNCHANGED <<counter, is_running, stop_id, cur, procVars, queueVars,
                   resVars, pdue, intrAdv>>

\* _Event.execute of run's stop event: Simulator.stop
ExecStop(e, c) ==
    /\ ~e.cancelled /\ e.kind = "stop"
    /\ events' = events \ {e}
    /\ is_running' = FALSE
    /\ ctl' = CtlAfter(c)
    /\ err' = "none"
    /\ UNCHANGED <<counter, stop_id, cur, procVars, queueVars, resVars, pdue,
                   intrAdv>>

\* Signal.wait's loop, for a process resumed in it: in signal.wait(), or in
\* the common.wait() of select
Rejoins(p) ==
    \/ pstate[p] = "wait" /\ MustJoin(is_on)
    \/ pstate[p] = "select" /\ MustJoin(common_on)

\* the list select returns: [signal for signal in signals if signal.is_on]
SelectResult == IF is_on THEN "s" ELSE "empty"

\* _Event.execute of process.switch: the process starts its body, or returns
\* from the suspension it is in (for Resource.take's join, the rest of take
\* runs: lines 803-808; for Signal.wait's join, the loop tests the signal
\* again and joins again while it is off); a finished greenlet returns at once
ExecSwitch(e, c) ==
    LET p == e.proc IN
    /\ ~e.cancelled /\ e.kind = "switch"
    /\ events' = events \ {e}
    /\ err' = "none"
    /\ IF pstate[p] = "dead"
       THEN /\ ctl' = CtlAfter(c)
            /\ UNCHANGED <<cur, procVars, resVars>>
       ELSE IF Rejoins(p)
       THEN /\ Joined(IF pstate[p] = "wait" THEN "s" ELSE "c", p)
            /\ ctl' = CtlAfter(c)
            /\ UNCHANGED <<cur, procVars, resVars>>
       ELSE /\ ctl' = c
            /\ cur' = p
            /\ pstate' = [pstate EXCEPT ![p] = "current"]
            /\ pdata' = [pdata EXCEPT ![p] = 0]
            /\ IF pstate[p] = "take"
               THEN /\ required' = [required EXCEPT ![p] = 0]
                    /\ free' = free - pdata[p]
                    /\ usage' = [usage EXCEPT ![p] = @ + pdata[p]]
                    /\ inUse' = [inUse EXCEPT ![p] = IF @ < 0 THEN 0 - @ ELSE @]
               ELSE UNCHANGED <<required, resVars>>
    /\ IF Rejoins(p)
       THEN UNCHANGED is_on
       ELSE UNCHANGED queueVars
    /\ pdue' = [pdue EXCEPT ![p] = 0]
    /\ intrAdv' = IF intrAdv[p] = e.id THEN [intrAdv EXCEPT ![p] = NoId] ELSE intrAdv
    /\ UNCHANGED <<counter, is_running, stop_id>>

RunCatchesNothing(exc) == FALSE

RunCatchesAll(exc) == TRUE

\* Process._run: except Interrupt
RunCatches(exc) == exc = "Interrupt"

\* _Event.execute of process.throw(Interrupt()): the exception is raised at
\* the suspension point of the process; advance cancels its wake-up and
\* re-raises; the body catches it or lets it out of _run.  Thrown into a
\* finished greenlet, the exception is raised in its parent, the simulator's
\* greenlet, and leaves run() or step()
ExecThrow(e, c) ==
    LET p == e.proc
        left == events \ {e}
    IN
    /\ ~e.cancelled /\ e.kind = "throw"
    /\ pstate[p] = "dead" \/ Suspended(p)
    /\ intrAdv' = [intrAdv EXCEPT ![p] = NoId]
    /\ pdue' = [pdue EXCEPT ![p] = 0]
    /\ IF pstate[p] = "dead"
       THEN /\ events' = left
            /\ ctl' = "top"
            /\ err' = "Interrupt"
            /\ UNCHANGED <<cur, procVars>>
       ELSE /\ events' = IF pstate[p] = "advance"
                         THEN Cancelled(left, pdata[p])
                         ELSE left
            /\ pdata' = [pdata EXCEPT ![p] = 0]
            /\ UNCHANGED required
            /\ \E caught \in BOOLEAN :
                 IF caught
                 THEN /\ pstate' = [pstate EXCEPT ![p] = "current"]
                      /\ cur' = p
                      /\ ctl' = c
                      /\ err' = "none"
                 ELSE /\ pstate' = [pstate EXCEPT ![p] = "dead"]
                      /\ cur' = 0
                      /\ ctl' = IF RunCatches("Interrupt") THEN CtlAfter(c) ELSE "top"
                      /\ err' = IF RunCatches("Interrupt") THEN "none" ELSE "Interrupt"
    /\ inUse' = IF pstate[p] = "take" /\ inUse[p] < 0
                THEN [inUse EXCEPT ![p] = 0]
                ELSE inUse
    /\ UNCHANGED <<counter, is_running, stop_id, queueVars, free, usage>>

ResumesAnything(e) == ~e.cancelled /\ e.kind \in {"switch", "throw"}

\* the execution of event e resumes a suspension: process.switch or
\* process.throw of a greenlet that is suspended in its body (neither to be
\* started nor finished)
Resumes(e) ==
    ~e.cancelled /\ e.kind \in {"switch", "throw"} /\ Suspended(e.proc)

\* one iteration of run's loop, or the body of step: heappop, the clock is
\* set, the event is executed
PopExecute(e, c) ==
    /\ IsHeapMin(e)
    /\ ts_now' = ClockAfterPop(e, ts_now)
    /\ lastEv' = IF e.cancelled THEN lastEv ELSE e
    /\ waitedOn' = waitedOn
    /\ woken' = woken
    /\ passed' = IF /\ ~e.cancelled /\ e.kind = "switch"
                    /\ pstate[e.proc] = "wait" /\ ~MustJoin(is_on)
                 THEN Append(passed, e.proc)
                 ELSE passed
    /\ selected' = IF /\ ~e.cancelled /\ e.kind = "switch"
                      /\ pstate[e.proc] = "select" /\ ~MustJoin(common_on)
                   THEN SelectResult
                   ELSE selected
    /\ UNCHANGED <<common_on, helper, hapVars>>
    /\ unresumed' = IF Resumes(e) /\ ~(e.kind = "switch" /\ Rejoins(e.proc))
                    THEN [unresumed EXCEPT ![e.proc] = @ - 1]
                    ELSE unresumed
    /\ past' = FALSE
    /\ \/ ExecPlain(e, c)
       \/ ExecStop(e, c)
       \/ ExecSwitch(e, c)
       \/ ExecThrow(e, c)

RunLoopIgnoringStop ==
    /\ ctl = "run" /\ cur = 0
    /\ \E e \in events : PopExecute(e, "run")

\* Simulator.run's loop
RunLoop ==
    /\ ctl = "run" /\ cur = 0
    /\ is_running
    /\ \E e \in events : PopExecute(e, "run")

\* Simulator.step, called by the main program
Step ==
    /\ AtTop
    /\ \E e \in events : PopExecute(e, "step")

\* ------------------------------------------------------------------ Process
\* a step of the body of p: it counts as a suspension when it ends with the
\* body suspended (self._gr.switch() in pause, which advance, Queue.join
\* and through it Signal.wait, select and Resource.take call)
BodyStep(p) ==
    unresumed' = IF Suspended(p)' THEN [unresumed EXCEPT ![p] = @ + 1] ELSE unresumed

\* advance(delay): the wake-up is scheduled, then the process switches to the
\* simulator's greenlet; a negative delay raises in the body
Advance(p, delay) ==
    /\ InBody(p)
    /\ CanSchedule(delay)
    /\ past' = (delay < 0)
    /\ DoSchedule(delay, "switch", p)
    /\ IF ValidDelay(delay)
       THEN /\ pstate' = [pstate EXCEPT ![p] = "advance"]
            /\ pdata' = [pdata EXCEPT ![p] = counter]
            /\ pdue' = [pdue EXCEPT ![p] = ts_now + delay]
            /\ cur' = 0
            /\ ctl' = CtlAfterYield
       ELSE UNCHANGED <<pstate, pdata, pdue, cur, ctl>>
    /\ UNCHANGED <<ts_now, is_running, stop_id, required, queueVars, resVars,
                   lastEv, intrAdv, waitedOn, woken, passed, selVars, hapVars>>
    /\ BodyStep(p)

\* pause()
Pause(p) ==
    /\ InBody(p)
    /\ past' = FALSE
    /\ err' = "none"
    /\ pstate' = [pstate EXCEPT ![p] = "pause"]
    /\ cur' = 0
    /\ ctl' = CtlAfterYield
    /\ UNCHANGED <<simVars, stop_id, pdata, required, queueVars, resVars, ghostVars, selVars, hapVars>>
    /\ BodyStep(p)

\* the body of the process returns: Process._run ends, the greenlet is dead
Return(p) ==
    /\ InBody(p)
    /\ past' = FALSE
    /\ err' = "none"
    /\ pstate' = [pstate EXCEPT ![p] = "dead"]
    /\ cur' = 0
    /\ ctl' = CtlAfterYield
    /\ UNCHANGED <<simVars, stop_id, pdata, required, queueVars, resVars, ghostVars, selVars, hapVars, balVars>>

\* the body lets an exception other than Interrupt out: Process._run does not
\* catch it, it is raised in the simulator's greenlet and leaves run() (whose
\* stop() and cancel-stop are skipped) or step()
Raise(p) ==
    /\ InBody(p)
    /\ past' = FALSE
    /\ err' = IF RunCatches("Exception") THEN "none" ELSE "Exception"
    /\ pstate' = [pstate EXCEPT ![p] = "dead"]
    /\ cur' = 0
    /\ ctl' = IF RunCatches("Exception") THEN CtlAfterYield ELSE "top"
    /\ UNCHANGED <<simVars, stop_id, pdata, required, queueVars, resVars, ghostVars, selVars, hapVars, balVars>>

\* an uncancelled event other than its own advance's wake-up is pending for t
HasContinuation(t) ==
    \E e \in events :
        /\ ~e.cancelled /\ e.proc = t
        /\ ~(pstate[t] = "advance" /\ e.id = pdata[t])

\* Process.resume, called for a process that is in pause() and that nothing
\* has resumed yet
Resume(t) ==
    /\ InCode
    /\ pstate[t] = "pause" /\ ~HasContinuation(t)
    /\ CanSchedule(0)
    /\ past' = FALSE
    /\ DoSchedule(0, "switch", t)
    /\ UNCHANGED <<ts_now, is_running, ctl, stop_id, cur, procVars, queueVars,
                   resVars, ghostVars, selVars, hapVars, balVars>>

\* Process.interrupt, called for a suspended process
Interrupt(t) ==
    /\ InCode
    /\ Suspended(t) /\ ~HasContinuation(t)
    /\ CanSchedule(0)
    /\ past' = FALSE
    /\ DoSchedule(0, "throw", t)
    /\ intrAdv' = [intrAdv EXCEPT ![t] = IF pstate[t] = "advance" THEN pdata[t] ELSE NoId]
    /\ UNCHANGED <<ts_now, is_running, ctl, stop_id, cur, procVars, queueVars,
                   resVars, lastEv, pdue, waitedOn, woken, passed, selVars, hapVars, balVars>>

\* ------------------------------------------------------------------ Queue
\* Queue.join: the process is enqueued, then pause()
JoinQueue(q, p, cls) ==
    /\ InBody(p)
    /\ past' = FALSE
    /\ err' = "none"
    /\ JoinedAs(q, p, cls)
    /\ pstate' = [pstate EXCEPT ![p] = "join"]
    /\ cur' = 0
    /\ ctl' = CtlAfterYield
    /\ UNCHANGED <<simVars, stop_id, pdata, required, is_on, resVars, ghostVars, selVars, hapVars>>
    /\ BodyStep(p)

\* Queue.join of the stand-alone queue
QJoin(p) == JoinQueue("q", p, 0)

\* Queue.join of the queue with the priority discipline, by a process whose
\* name is of class cls
PJoin(p, cls) == JoinQueue("pq", p, cls)

DoPopNoResume(q) ==
    /\ err' = "none"
    /\ waiting' = [waiting EXCEPT ![q] = IF IsEmpty(q) THEN @ ELSE @ \ {Peek(q)}]
    /\ UNCHANGED <<events, counter>>

\* Queue.pop: a no-op on an empty queue; else the head entry is removed and
\* its process resumed (Process.resume: a zero-delay process.switch)
DoPop(q) ==
    IF IsEmpty(q)
    THEN /\ err' = "none"
         /\ UNCHANGED <<events, counter, waiting>>
    ELSE /\ waiting' = [waiting EXCEPT ![q] = @ \ {Peek(q)}]
         /\ DoSchedule(0, "switch", Peek(q)[2])

\* Queue.pop, from any code
PopQueue(q) ==
    /\ InCode
    /\ ~IsEmpty(q) => CanSchedule(0)
    /\ past' = FALSE
    /\ DoPop(q)
    /\ UNCHANGED <<ts_now, is_running, ctl, stop_id, cur, procVars, qcounter,
                   is_on, resVars, ghostVars, selVars, hapVars, balVars>>

\* Queue.pop of the stand-alone queue
QPop == PopQueue("q")

\* Queue.pop of the queue with the priority discipline
PPop == PopQueue("pq")

\* queue.join(timeout), as the tests call it: join(self) takes no argument,
\* so the call raises TypeError in the body before anything is done
JoinTimeout(p, timeout) ==
    /\ InBody(p)
    /\ past' = FALSE
    /\ err' = "TypeError"
    /\ UNCHANGED <<simVars, ctl, stop_id, cur, procVars, queueVars, resVars,
                   ghostVars, selVars, hapVars, balVars>>

\* ------------------------------------------------------------------ Signal
\* the events of the heap once queue entries w have all been popped, heads
\* first, the next identifier being c: one zero-delay process.switch each
RECURSIVE PoppedAllReversed(_, _, _)
PoppedAllReversed(evs, w, c) ==
    IF w = {} THEN evs
    ELSE LET h == CHOOSE x \in w : \A y \in w : x[1] >= y[1]
         IN PoppedAllReversed(evs \cup {Event(ts_now, c, "switch", h[2])},
                              w \ {h}, c + 1)

RECURSIVE PoppedAll(_, _, _)
PoppedAll(evs, w, c) ==
    IF w = {} THEN evs
    ELSE LET h == CHOOSE x \in w : \A y \in w : x[1] <= y[1]
         IN PoppedAll(evs \cup {Event(ts_now, c, "switch", h[2])}, w \ {h}, c + 1)

\* the processes of queue entries w, heads first
RECURSIVE PopOrder(_)
PopOrder(w) ==
    IF w = {} THEN <<>>
    ELSE LET h == CHOOSE x \in w : \A y \in w : x[1] <= y[1]
         IN <<h[2]>> \o PopOrder(w \ {h})

\* Signal.turn_on: the signal is on and the queue is popped until it is empty
DoTurnOn ==
    /\ past' = FALSE
    /\ err' = "none"
    /\ is_on' = TRUE
    /\ events' = PoppedAll(events, waiting["s"], counter)
    /\ counter' = counter + Cardinality(waiting["s"])
    /\ waiting' = [waiting EXCEPT !["s"] = {}]
    /\ woken' = IF IsEmpty("s") THEN woken ELSE PopOrder(waiting["s"])
    /\ passed' = IF IsEmpty("s") THEN passed ELSE <<>>
    /\ UNCHANGED <<ts_now, is_running, ctl, stop_id, cur, procVars, qcounter,
                   resVars, lastEv, pdue, intrAdv, waitedOn, selVars, hapVars, balVars>>

\* Signal.turn_on, from any code
TurnOn ==
    /\ InCode
    /\ counter + Cardinality(waiting["s"]) <= MaxCounter
    /\ DoTurnOn

\* Signal.turn_off, from any code
TurnOff ==
    /\ InCode
    /\ past' = FALSE
    /\ err' = "none"
    /\ is_on' = FALSE
    /\ UNCHANGED <<simVars, ctl, stop_id, cur, procVars, waiting, qcounter,
                   resVars, ghostVars, selVars, hapVars, balVars>>

\* Signal.wait: nothing to do while the signal is on; else the process joins
\* the signal's queue (and joins it again each time it is resumed with the
\* signal off: ExecSwitch)
Wait(p) ==
    /\ InBody(p)
    /\ past' = FALSE
    /\ err' = "none"
    /\ IF MustJoin(is_on)
       THEN /\ Joined("s", p)
            /\ pstate' = [pstate EXCEPT ![p] = "wait"]
            /\ cur' = 0
            /\ ctl' = CtlAfterYield
            /\ UNCHANGED <<is_on, waitedOn>>
       ELSE /\ waitedOn' = TRUE
            /\ UNCHANGED <<ctl, cur, pstate, queueVars>>
    /\ UNCHANGED <<simVars, stop_id, pdata, required, resVars, lastEv, pdue,
                   intrAdv, woken, passed, selVars, hapVars>>
    /\ BodyStep(p)

\* ------------------------------------------------------------------ select
\* select(signal), one call per behaviour: common = Signal().turn_off(), a
\* process is added to run wait_one(signal, common), then common.wait()
\* finds common off and joins its queue
Select(p) ==
    /\ InBody(p)
    /\ helper = {}
    /\ \E h \in Procs : pstate[h] = "unborn"
    /\ CanSchedule(0)
    /\ past' = FALSE
    /\ common_on' = FALSE
    /\ DoSchedule(0, "switch", NewProc)
    /\ helper' = {NewProc}
    /\ selected' = "none"
    /\ Joined("c", p)
    /\ pstate' = [pstate EXCEPT ![NewProc] = "initial", ![p] = "select"]
    /\ cur' = 0
    /\ ctl' = CtlAfterYield
    /\ UNCHANGED <<ts_now, is_running, stop_id, pdata, required, is_on, resVars,
                   ghostVars, hapVars>>
    /\ BodyStep(p)

\* the body of the process select has added, from its start or from its
\* return from signal.wait() to its next suspension or its end:
\* signal.wait(), then common.turn_on() and the body returns
WaitOne(h) ==
    /\ InBody(h) /\ h \in helper
    /\ past' = FALSE
    /\ err' = "none"
    /\ cur' = 0
    /\ ctl' = CtlAfterYield
    /\ IF MustJoin(is_on)
       THEN /\ Joined("s", h)
            /\ pstate' = [pstate EXCEPT ![h] = "wait"]
            /\ UNCHANGED <<events, counter, common_on>>
       ELSE /\ counter + Cardinality(waiting["c"]) <= MaxCounter
            /\ common_on' = TRUE
            /\ events' = PoppedAll(events, waiting["c"], counter)
            /\ counter' = counter + Cardinality(waiting["c"])
            /\ waiting' = [waiting EXCEPT !["c"] = {}]
            /\ pstate' = [pstate EXCEPT ![h] = "dead"]
            /\ UNCHANGED qcounter
    /\ UNCHANGED <<ts_now, is_running, stop_id, pdata, required, is_on, resVars,
                   ghostVars, helper, selected, hapVars>>
    /\ BodyStep(h)

\* select(signal, timeout=T), as the tests call it: select(*signals) takes
\* no keyword, so the call raises TypeError in the body before anything is
\* done
SelectTimeout(p, timeout) ==
    /\ InBody(p)
    /\ past' = FALSE
    /\ err' = "TypeError"
    /\ UNCHANGED <<simVars, ctl, stop_id, cur, procVars, queueVars, resVars,
                   ghostVars, selVars, hapVars, balVars>>

\* ------------------------------------------------------------------ happens
\* the iterables given to happens(): the sequences of at most MaxLen
\* intervals, each 0 or 1
MaxLen == 2
IntervalSeqs == UNION {[1..n -> {0, 1}] : n \in 0..MaxLen}

\* sim.add(make_happen) by the main program, make_happen being the body
\* that happens(intervals) has made of some inner body
AddHappens(intervals) ==
    /\ AtTop
    /\ hproc = 0
    /\ \E p \in Procs : pstate[p] = "unborn"
    /\ CanSchedule(0)
    /\ past' = FALSE
    /\ DoSchedule(0, "switch", NewProc)
    /\ pstate' = [pstate EXCEPT ![NewProc] = "initial"]
    /\ hproc' = NewProc
    /\ hphase' = "new"
    /\ hrest' = intervals
    /\ hdue' = 0
    /\ UNCHANGED <<ts_now, is_running, ctl, stop_id, cur, pdata, required,
                   queueVars, resVars, ghostVars, selVars, balVars>>

\* make_happen's loop takes its next interval and calls advance(interval),
\* or ends with the body when the intervals are exhausted; evs, c and ps
\* are the heap, the next identifier and the processes at that point
HappensNext(h, evs, c, due, ps) ==
    /\ err' = "none"
    /\ cur' = 0
    /\ ctl' = CtlAfterYield
    /\ IF hrest = <<>>
       THEN /\ events' = evs
            /\ counter' = c
            /\ pstate' = [ps EXCEPT ![h] = "dead"]
            /\ hphase' = "done"
            /\ hdue' = due
            /\ UNCHANGED <<hrest, pdata, pdue>>
       ELSE /\ c < MaxCounter /\ ts_now + Head(hrest) <= MaxTime
            /\ events' = evs \cup {Event(ts_now + Head(hrest), c, "switch", h)}
            /\ counter' = c + 1
            /\ pstate' = [ps EXCEPT ![h] = "advance"]
            /\ pdata' = [pdata EXCEPT ![h] = c]
            /\ pdue' = [pdue EXCEPT ![h] = ts_now + Head(hrest)]
            /\ hphase' = "loop"
            /\ hrest' = Tail(hrest)
            /\ hdue' = due + Head(hrest)

\* the body make_happen from its start to its first suspension or its end
HappensStart(h) ==
    /\ InBody(h) /\ h = hproc /\ hphase = "new"
    /\ past' = FALSE
    /\ HappensNext(h, events, counter, ts_now, pstate)
    /\ UNCHANGED <<ts_now, is_running, stop_id, required, queueVars, resVars,
                   lastEv, intrAdv, waitedOn, woken, passed, selVars, hproc>>
    /\ BodyStep(h)

\* the body make_happen from the return of its advance to its next
\* suspension or its end: add(event), a new process running the inner body,
\* then the loop goes on
HappensWake(h) ==
    /\ InBody(h) /\ h = hproc /\ hphase = "loop"
    /\ \E p \in Procs : pstate[p] = "unborn"
    /\ counter < MaxCounter
    /\ past' = FALSE
    /\ HappensNext(h, Pushed(events, 0, "switch", NewProc), counter + 1, hdue,
                   [pstate EXCEPT ![NewProc] = "initial"])
    /\ UNCHANGED <<ts_now, is_running, stop_id, required, queueVars, resVars,
                   lastEv, intrAdv, waitedOn, woken, passed, selVars, hproc>>
    /\ BodyStep(h)

\* ------------------------------------------------------------------ Resource
RECURSIVE SumUpTo(_, _)
SumUpTo(f, n) == IF n = 0 THEN 0 ELSE f[n] + SumUpTo(f, n - 1)

\* sum(self._usage.values())
SumUsage(u) == SumUpTo(u, NProc)

\* Resource.num_instances_total
NumInstancesTotal == free + SumUsage(usage)

FreeAfterReleaseForgotten(f, n) == f

\* release: self._num_instances_free += num_instances
FreeAfterRelease(f, n) == f + n

InvalidCountBelowOnly(n) == n < 1

\* take: num_instances < 1 or num_instances > self.num_instances_total
InvalidCount(n) == n < 1 \/ n > NumInstancesTotal

ExceedsHoldingNever(p, n) == FALSE

\* release: num_instances > self._usage[proc]
ExceedsHolding(p, n) == n > usage[p]

\* Resource.take: the count is validated; with enough free instances they are
\* taken at once; else the required count is recorded in the process's local
\* bag and the process joins the resource's queue (the rest of take runs when
\* it is resumed: ExecSwitch)
DoTake(p, n) ==
    /\ InBody(p)
    /\ past' = FALSE
    /\ IF InvalidCount(n)
       THEN /\ err' = "ValueError"
            /\ UNCHANGED <<ctl, cur, procVars, queueVars, free, usage>>
       ELSE /\ err' = "none"
            /\ IF free < n
               THEN /\ required' = [required EXCEPT ![p] = n]
                    /\ Joined("r", p)
                    /\ pstate' = [pstate EXCEPT ![p] = "take"]
                    /\ pdata' = [pdata EXCEPT ![p] = n]
                    /\ cur' = 0
                    /\ ctl' = CtlAfterYield
                    /\ UNCHANGED <<is_on, free, usage>>
               ELSE /\ free' = free - n
                    /\ usage' = [usage EXCEPT ![p] = @ + n]
                    /\ UNCHANGED <<ctl, cur, procVars, queueVars>>
    /\ UNCHANGED <<simVars, stop_id, ghostVars, selVars, hapVars>>
    /\ BodyStep(p)

\* resource.take(n), called by the body of p
Take(p, n) == DoTake(p, n) /\ UNCHANGED inUse

HeadFitsAlways(num_instances_next, num_free) == TRUE

\* release's test before it pops: num_instances_next <= self.num_instances_free
HeadFits(num_instances_next, num_free) == num_instances_next <= num_free

\* Resource.release: RuntimeError for a process that holds nothing, ValueError
\* for more than it holds; else the instances are given back and the head of
\* the queue is popped if its required count fits.  A head whose required
\* count is not set (an auto-created _TreeLocalParam) makes the comparison
\* raise TypeError, after the instances were given back
DoRelease(p, n) ==
    /\ InBody(p)
    /\ ~IsEmpty("r") => CanSchedule(0)
    /\ past' = FALSE
    /\ IF usage[p] > 0
       THEN IF ExceedsHolding(p, n)
            THEN /\ err' = "ValueError"
                 /\ UNCHANGED <<events, counter, waiting, free, usage>>
            ELSE /\ usage' = [usage EXCEPT ![p] = @ - n]
                 /\ free' = FreeAfterRelease(free, n)
                 /\ IF IsEmpty("r")
                    THEN /\ err' = "none"
                         /\ UNCHANGED <<events, counter, waiting>>
                    ELSE IF required[Peek("r")[2]] = 0
                    THEN /\ err' = "TypeError"
                         /\ UNCHANGED <<events, counter, waiting>>
                    ELSE IF HeadFits(required[Peek("r")[2]], free')
                    THEN DoPop("r")
                    ELSE /\ err' = "none"
                         /\ UNCHANGED <<events, counter, waiting>>
       ELSE /\ err' = "RuntimeError"
            /\ UNCHANGED <<events, counter, waiting, free, usage>>
    /\ UNCHANGED <<ts_now, is_running, ctl, stop_id, cur, procVars, qcounter,
                   is_on, ghostVars, selVars, hapVars, balVars>>

\* resource.release(n), called by the body of p
Release(p, n) == DoRelease(p, n) /\ UNCHANGED inUse

\* `with resource.using(n):` is entered: the generator runs self.take(n) and
\* reaches its yield once take has returned; an exception of take leaves
\* the generator before the block is entered
UsingEnter(p, n) ==
    /\ inUse[p] = 0
    /\ DoTake(p, n)
    /\ inUse' = [inUse EXCEPT ![p] = IF err' = "ValueError" THEN 0
                                     ELSE IF pstate'[p] = "take" THEN 0 - n
                                     ELSE n]

\* the with-block ends normally: the generator is resumed after its yield
\* and runs self.release(n)
UsingExit(p) ==
    /\ inUse[p] > 0
    /\ DoRelease(p, inUse[p])
    /\ inUse' = [inUse EXCEPT ![p] = 0]

\* an exception (an Interrupt delivered at a suspension of the block, or any
\* other) leaves the with-block and is caught by the body outside it: the
\* context manager throws it into the generator at `yield self`, which no
\* try statement encloses, so the generator ends there
UsingExitException(p) ==
    /\ InBody(p)
    /\ inUse[p] > 0
    /\ past' = FALSE
    /\ err' = "none"
    /\ inUse' = [inUse EXCEPT ![p] = 0]
    /\ UNCHANGED <<simVars, ctl, stop_id, cur, procVars, queueVars, free, usage,
                   ghostVars, selVars, hapVars, balVars>>

\* ------------------------------------------------------------------ specifications
\* the simulator with plain events and processes that advance
Next ==
    \/ \E d \in Delays : Schedule(d)
    \/ \E id \in 0..(MaxCounter - 1) : id < counter /\ Cancel(id)
    \/ \E d \in Delays : AddIn(d)
    \/ \E m \in (0 - 1)..MaxTime : AddAt(m)
    \/ \E finite \in BOOLEAN :
         \E d \in (IF finite THEN Delays ELSE {0}) : Run(finite, d)
    \/ RunLoop
    \/ RunExit
    \/ Step
    \/ \E p \in Procs : \E d \in Delays : Advance(p, d)
    \/ \E p \in Procs : Return(p)

Spec == Init /\ [][Next]_vars

\* processes that suspend, resume and interrupt one another, and the Queue
NextProc ==
    \/ \E d \in Delays : d >= 0 /\ AddIn(d)
    \/ Stop
    \/ Run(FALSE, 0)
    \/ RunLoop
    \/ RunExit
    \/ Step
    \/ \E p \in Procs : \E d \in Delays : d >= 0 /\ Advance(p, d)
    \/ \E p \in Procs : Pause(p)
    \/ \E p \in Procs : Return(p)
    \/ \E p \in Procs : Raise(p)
    \/ \E t \in Procs : Resume(t)
    \/ \E t \in Procs : Interrupt(t)
    \/ \E p \in Procs : QJoin(p)
    \/ QPop

SpecProc == Init /\ [][NextProc]_vars

\* processes that take and release the instances of one Resource
NextRes ==
    \/ AddIn(0)
    \/ Run(FALSE, 0)
    \/ RunLoop
    \/ RunExit
    \/ \E p \in Procs : Advance(p, 1)
    \/ \E p \in Procs : Return(p)
    \/ \E t \in Procs : Interrupt(t)
    \/ \E p \in Procs : \E n \in Counts : Take(p, n)
    \/ \E p \in Procs : \E n \in Counts : Release(p, n)

SpecRes == Init /\ [][NextRes]_vars

\* processes that hold the instances of one Resource in with-blocks
NextUsing ==
    \/ AddIn(0)
    \/ Run(FALSE, 0)
    \/ RunLoop
    \/ RunExit
    \/ \E p \in Procs : Advance(p, 1)
    \/ \E p \in Procs : Return(p)
    \/ \E t \in Procs : Interrupt(t)
    \/ \E p \in Procs : \E n \in Counts : UsingEnter(p, n)
    \/ \E p \in Procs : UsingExit(p)
    \/ \E p \in Procs : UsingExitException(p)

SpecUsing == Init /\ [][NextUsing]_vars

\* processes that wait in a queue with a priority discipline and for a Signal
NextWait ==
    \/ AddIn(0)
    \/ Run(FALSE, 0)
    \/ RunLoop
    \/ RunExit
    \/ \E p \in Procs : Return(p)
    \/ \E p \in Procs : \E cls \in Classes : PJoin(p, cls)
    \/ PPop
    \/ \E p \in Procs : \E timeout \in 0..MaxTime : JoinTimeout(p, timeout)
    \/ TurnOn
    \/ TurnOff
    \/ \E p \in Procs : Wait(p)

SpecWait == Init /\ [][NextWait]_vars

\* processes that wait for a Signal which the main program, plain events'
\* callers and the processes turn on and off
NextSignal ==
    \/ Schedule(0)
    \/ AddIn(0)
    \/ Run(FALSE, 0)
    \/ RunLoop
    \/ RunExit
    \/ Step
    \/ \E p \in Procs : Return(p)
    \/ TurnOn
    \/ TurnOff
    \/ \E p \in Procs : Wait(p)

SpecSignal == Init /\ [][NextSignal]_vars

\* runs of a finite or infinite duration, which an event can end by stop() or
\* by an exception that leaves run()
NextRun ==
    \/ \E d \in {0, 1} : AtTop /\ AddIn(d)
    \/ \E finite \in BOOLEAN : \E d \in {0, 1} : Run(finite, d)
    \/ RunLoop
    \/ RunExit
    \/ cur # 0 /\ Stop
    \/ \E p \in Procs : \E d \in {0, 1} : Advance(p, d)
    \/ \E p \in Procs : Return(p)
    \/ \E p \in Procs : Raise(p)

SpecRun == Init /\ [][NextRun]_vars

\* processes that are suspended in each way when the simulator is torn down
NextClear ==
    \/ AtTop /\ AddIn(0)
    \/ Run(FALSE, 0)
    \/ RunLoop
    \/ RunExit
    \/ Step
    \/ AtTop /\ TurnOff
    \/ \E p \in Procs : Advance(p, 1)
    \/ \E p \in Procs : Pause(p)
    \/ \E p \in Procs : QJoin(p)
    \/ \E p \in Procs : Wait(p)
    \/ \E p \in Procs : Take(p, NumInstances)
    \/ \E p \in Procs : Return(p)
    \/ Clear

SpecClear == Init /\ [][NextClear]_vars

\* a process made by happens(intervals) and the processes it adds
NextHappens ==
    \/ \E intervals \in IntervalSeqs : AddHappens(intervals)
    \/ Run(FALSE, 0)
    \/ RunLoop
    \/ RunExit
    \/ Step
    \/ \E h \in Procs : HappensStart(h)
    \/ \E h \in Procs : HappensWake(h)
    \/ \E p \in Procs \ {hproc} : Return(p)

SpecHappens == Init /\ [][NextHappens]_vars

\* a process that selects on the signal, which the main program and the
\* other processes turn on and off
NextSelect ==
    \/ AtTop /\ AddIn(0)
    \/ Run(FALSE, 0)
    \/ RunLoop
    \/ RunExit
    \/ Step
    \/ cur \notin helper /\ TurnOn
    \/ cur \notin helper /\ TurnOff
    \/ \E p \in Procs \ helper : Select(p)
    \/ \E p \in Procs \ helper : Return(p)
    \/ \E h \in Procs : WaitOne(h)
    \/ \E p \in Procs \ helper : \E timeout \in 0..MaxTime : SelectTimeout(p, timeout)

SpecSelect == Init /\ [][NextSelect]_vars

\* the processes of a sequence
Range(sq) == {sq[i] : i \in 1..Len(sq)}

\* the waiters of test_signal_waiter_turning_off, whose body is
\* signal.wait(); signal.turn_off(): the main program turns the signal off
\* while nothing is pending, adds waiters while it is off, and turns it on
\* while nothing is pending: every waiter added has started, and those the
\* last turn_on has woken have run
GateAdd == AtTop /\ ~is_on /\ AddIn(0)

GateSetOff == AtTop /\ events = {} /\ TurnOff

GateSetOn == AtTop /\ events = {} /\ DoTurnOn

GateWait(p) == p \notin Range(passed) /\ Wait(p)

GateTurnOff(p) == InBody(p) /\ p \in Range(passed) /\ is_on /\ TurnOff

GateReturn(p) == p \in Range(passed) /\ ~is_on /\ Return(p)

NextGate ==
    \/ GateAdd
    \/ GateSetOff
    \/ GateSetOn
    \/ Run(FALSE, 0)
    \/ RunLoop
    \/ RunExit
    \/ Step
    \/ \E p \in Procs : GateWait(p)
    \/ \E p \in Procs : GateTurnOff(p)
    \/ \E p \in Procs : GateReturn(p)

SpecGate == Init /\ [][NextGate]_vars

\* ------------------------------------------------------------------ claims
\* C1: for any two events executed by one Simulator, the one popped first is
\* the smaller by (timestamp, identifier); stated for each executed event and
\* the next one executed, which gives every pair by transitivity
C1_ExecutedInHeapOrder ==
    [][(lastEv' # lastEv /\ lastEv.id # NoId) => Lt(lastEv, lastEv')]_vars

C3_ClockNeverRegresses == [][ts_now' >= ts_now]_vars

\* the clock has advanced to an executed event's timestamp, outside run(),
\* with a cancelled event still to pop
C3_Witness ==
    /\ AtTop
    /\ lastEv.id # NoId /\ ts_now = lastEv.ts /\ ts_now > 0
    /\ \E e \in events : e.cancelled

\* C4: while the function of an uncancelled event executes (here: the body of
\* the process the event switched to), now() is the event's timestamp
C4_ClockIsEventTimestamp == cur # 0 => ts_now = lastEv.ts

\* C5: a scheduling call into the past (_schedule, add_in, advance or run with
\* a negative delay, add_at with a moment before now) raises ValueError and
\* leaves the heap, the sequence counter and the clock as they were
C5_PastRejectedUnchanged ==
    [][past' => (err' = "ValueError" /\ UNCHANGED <<events, counter, ts_now>>)]_vars

\* a process body has just had a call into the past rejected, events pending
C5_Witness == past /\ err = "ValueError" /\ cur # 0 /\ events # {}

\* C6: a process that called advance(d) at clock value t and is resumed by a
\* continuation (not interrupted) resumes when the clock is t + d
C6_AdvanceResumesWhenDue ==
    [][\A p \in Procs :
          (pstate[p] = "advance" /\ pstate'[p] = "current" /\ lastEv'.kind = "switch")
              => ts_now' = pdue[p]]_vars

\* C7: once interrupt() has been called on a process suspended in advance,
\* the wake-up of that advance never executes (it is cancelled when the
\* Interrupt is raised, and the process is not woken by it)
C7_InterruptedWakeupNeverFires ==
    [][\A p \in Procs :
          intrAdv[p] # NoId => ~(lastEv' # lastEv /\ lastEv'.id = intrAdv[p])]_vars

\* C8: when the Interrupt is raised in a process suspended in Queue.join
\* (directly or in a blocking Resource.take), the process has no entry left
\* in that queue
C8_InterruptLeavesQueue ==
    [][\A p \in Procs :
          (/\ pstate[p] \in {"join", "take"}
           /\ lastEv' # lastEv /\ lastEv'.kind = "throw" /\ lastEv'.proc = p)
              => (p \notin QueuedIn(waiting', "q") /\ p \notin QueuedIn(waiting', "r"))]_vars

\* C9: an Interrupt that leaves the body of a suspended process ends that
\* process only: nothing is raised in run() or step(), the simulator's
\* greenlet is current again and still in run's loop (or back from step), the
\* running flag and the pending events of the other processes are untouched;
\* and a finished process never executes again
C9_UncaughtInterruptKillsOnlyProcess ==
    [][\A p \in Procs :
          /\ (Suspended(p) /\ pstate'[p] = "dead")
                => /\ lastEv'.kind = "throw" /\ lastEv'.proc = p
                   /\ err' = "none"
                   /\ cur' = 0
                   /\ ctl' = ctl
                   /\ is_running' = is_running
                   /\ \A e \in events : (e.proc # p /\ e.id # lastEv'.id) => e \in events'
          /\ pstate[p] = "dead" => pstate'[p] = "dead"]_vars

\* a process was ended by an Interrupt inside run(), which is still looping
\* with an event of another process to execute
C9_Witness ==
    \E p \in Procs :
        /\ pstate[p] = "dead" /\ lastEv.kind = "throw" /\ lastEv.proc = p
        /\ ctl = "run" /\ cur = 0 /\ is_running /\ err = "none"
        /\ \E e \in events : ~e.cancelled /\ e.kind = "switch" /\ e.proc # p

\* C10: the free instances plus the instances held by all processes are the
\* instances the Resource was created with
C10_InstancesConserved == free + SumUsage(usage) = NumInstances

\* a process holds instances, another waits in take, and a take or release
\* of the holder has just been refused
C10_Witness ==
    /\ err = "ValueError"
    /\ \E p, q \in Procs : usage[p] > 0 /\ pstate[q] = "take" /\ cur = p

\* C11: the number of free instances is never negative
C11_FreeNeverNegative == free >= 0

\* C12: when a process leaves the with-block of resource.using(n), by any
\* exit, the n instances are released: its holding goes down by n and the
\* free count up by n
C12_UsingReleasesOnEveryExit ==
    [][\A p \in Procs :
          (inUse[p] > 0 /\ inUse'[p] = 0)
              => (usage'[p] = usage[p] - inUse[p] /\ free' = free + inUse[p])]_vars

\* C13: take(num) with num < 1 or num above the total raises ValueError at
\* once and changes nothing: free count, holdings and waiting queue are as
\* they were and the caller is still the running process
C13_InvalidTakeChangesNothing ==
    [][\A p \in Procs : \A n \in Counts :
          ((n < 1 \/ n > NumInstances) /\ Take(p, n))
              => /\ err' = "ValueError"
                 /\ UNCHANGED <<free, usage, waiting, qcounter, required, events>>
                 /\ cur' = p /\ pstate'[p] = "current"]_vars

\* a process that holds nothing has just had a take refused, while another
\* process waits for instances
C13_Witness ==
    /\ err = "ValueError"
    /\ cur # 0 /\ usage[cur] = 0
    /\ waiting["r"] # {} /\ free < NumInstances

\* C14: release(num) by a process that holds fewer than num instances raises
\* ValueError (it holds some) or RuntimeError (it holds none) and changes
\* nothing: free count, holdings and waiting queue are as they were and no
\* waiter is resumed
C14_ExcessReleaseChangesNothing ==
    [][\A p \in Procs : \A n \in Counts :
          (n > usage[p] /\ Release(p, n))
              => /\ err' = (IF usage[p] > 0 THEN "ValueError" ELSE "RuntimeError")
                 /\ UNCHANGED <<free, usage, waiting, qcounter, events, counter>>]_vars

\* a release by a process that holds nothing has just been refused while a
\* process waits for instances
C14_Witness ==
    /\ err = "RuntimeError"
    /\ cur # 0 /\ usage[cur] = 0
    /\ waiting["r"] # {} /\ free < NumInstances

\* C15: with the default order token, every pop() takes out of the queue the
\* entry that joined before all the entries left in it, and resumes its
\* process
C15_PopsInJoinOrder ==
    [][\A x \in waiting["q"] \ waiting'["q"] :
          /\ \A y \in waiting'["q"] : x[3] < y[3]
          /\ \E e \in events' \ events :
                e.kind = "switch" /\ e.proc = x[2] /\ e.ts = ts_now]_vars

\* the first of two queued processes has been popped and is about to be
\* resumed, the one that joined after it is still queued
C15_Witness ==
    \E y \in waiting["q"] : \E e \in events :
        /\ y[3] > 1
        /\ e.kind = "switch" /\ ~e.cancelled
        /\ e.proc # y[2]
        /\ pstate[e.proc] = "join" /\ e.proc \notin QueuedIn(waiting, "q")

\* C16: with the order token counter + K * class, every pop() takes out the
\* entry of the lowest class in the queue and, within that class, the one
\* that joined first
C16_PopsByClassThenJoinOrder ==
    [][\A x \in waiting["pq"] \ waiting'["pq"] :
          /\ \A y \in waiting'["pq"] :
                x[4] < y[4] \/ (x[4] = y[4] /\ x[3] < y[3])
          /\ \E e \in events' \ events : e.kind = "switch" /\ e.proc = x[2]]_vars

\* a process of the lower class that joined last has been popped before a
\* queued process of the higher class
C16_Witness ==
    \E y \in waiting["pq"] : \E e \in events :
        /\ y[4] = 1 /\ y[3] = 1 /\ qcounter["pq"] > 1
        /\ e.kind = "switch" /\ ~e.cancelled /\ e.proc # y[2]
        /\ pstate[e.proc] = "join"

\* C17: pop() on an empty queue raises nothing and changes nothing (queue,
\* join counter, heap of events, sequence counter, clock, processes); on a
\* non-empty queue it removes the head entry and nothing else, and schedules
\* one continuation of that process at the current time
C17_PopEmptyNoOpElseHeadResumed ==
    [][QPop =>
          IF waiting["q"] = {}
          THEN /\ err' = "none"
               /\ UNCHANGED <<waiting, qcounter, events, counter, ts_now,
                              is_running, pstate, cur, ctl>>
          ELSE \E h \in waiting["q"] :
                 /\ \A x \in waiting["q"] : h[1] <= x[1]
                 /\ waiting'["q"] = waiting["q"] \ {h}
                 /\ events' = events \cup {Event(ts_now, counter, "switch", h[2])}
                 /\ counter' = counter + 1
                 /\ err' = "none"
                 /\ UNCHANGED <<qcounter, ts_now, is_running, pstate, cur, ctl>>]_vars

\* the only entry of the queue has been popped: the queue is empty again and
\* the continuation of the process that waited in it is pending
C17_Witness ==
    /\ waiting["q"] = {} /\ qcounter["q"] > 0
    /\ \E e \in events :
         /\ e.kind = "switch" /\ ~e.cancelled /\ e.ts = ts_now
         /\ pstate[e.proc] = "join"

\* C18: a process that calls join(timeout=T) at clock value t waits in the
\* queue until it is popped or, at t + T, taken out of the queue with Timeout
\* raised in it: the call leaves it suspended, queued, and the Timeout
\* scheduled for t + T
C18_JoinTimeoutWaitsUntilDeadline ==
    [][\A p \in Procs : \A timeout \in 0..MaxTime :
          JoinTimeout(p, timeout)
              => /\ pstate'[p] = "join"
                 /\ p \in QueuedIn(waiting', "q")
                 /\ \E e \in events' :
                      e.proc = p /\ e.kind = "throw" /\ e.ts = ts_now + timeout]_vars

\* C19: a process that calls join(timeout=T) and is popped before the
\* deadline returns normally from join: the call raises nothing in the
\* process, which gives control back to the simulator until the pop
C19_JoinTimeoutReturnsNormally ==
    [][\A p \in Procs : \A timeout \in 0..MaxTime :
          JoinTimeout(p, timeout) => (err' = "none" /\ cur' = 0)]_vars

\* C20: while the signal is on, wait() returns at once: the calling process
\* is still the running process, it has not entered the signal's queue and
\* no event has been scheduled
C20_WaitOnSignalOnReturnsAtOnce ==
    [][\A p \in Procs :
          (is_on /\ Wait(p))
              => /\ cur' = p /\ pstate'[p] = "current"
                 /\ UNCHANGED <<waiting, qcounter, events, counter, is_on>>]_vars

\* a wait() has returned at once on a signal that had been off with
\* processes waiting for it, and the caller is still running
C20_Witness ==
    /\ waitedOn /\ is_on /\ qcounter["s"] > 0
    /\ cur # 0 /\ pstate[cur] = "current"
    /\ \E e \in events : e.kind = "switch" /\ pstate[e.proc] = "wait"

\* C21: Signal.turn_on leaves the signal on and its queue empty, and schedules
\* one process.switch per waiter, at the current time, behind every event
\* already pending, the identifiers following the order of the queue
C21_TurnOnWakesAllInOrder ==
    [][TurnOn =>
        LET new == events' \ events IN
        /\ is_on' /\ waiting'["s"] = {}
        /\ events \subseteq events'
        /\ Cardinality(new) = Cardinality(waiting["s"])
        /\ \A x \in waiting["s"] :
             \E e \in new :
                /\ e.proc = x[2] /\ e.kind = "switch" /\ ~e.cancelled
                /\ e.ts = ts_now
                /\ \A f \in events : f.id < e.id
        /\ \A x, y \in waiting["s"] : \A e, f \in new :
             (x[1] < y[1] /\ e.proc = x[2] /\ f.proc = y[2]) => e.id < f.id
    ]_vars

\* two waiters have just been woken by one turn_on
C21_Witness ==
    /\ is_on /\ waiting["s"] = {}
    /\ \E e, f \in events :
         /\ e.kind = "switch" /\ f.kind = "switch" /\ e.proc # f.proc
         /\ pstate[e.proc] = "wait" /\ pstate[f.proc] = "wait"
         /\ e.id + 1 = f.id /\ f.id + 1 = counter
         /\ e.ts = ts_now /\ f.ts = ts_now

\* C22: a process suspended in Signal.wait returns from it only while the
\* signal is on, and one resumed while it is off is queued again, behind the
\* others.  Of waiters that turn the signal off as soon as wait returns, a
\* turn_on lets exactly one through, the first it has popped, and the others
\* are queued again in the order they had
C22_WaitReturnsOnlyWhenOn ==
    /\ [](/\ Len(passed) <= 1
          /\ passed # <<>> => passed[1] = woken[1]
          /\ (AtTop /\ events = {} /\ woken # <<>>) =>
                /\ Len(passed) = 1
                /\ \A i, j \in 2..Len(woken) : \A x, y \in waiting["s"] :
                     (i < j /\ x[2] = woken[i] /\ y[2] = woken[j]) => x[1] < y[1])
    /\ [][/\ \A p \in Procs :
               (pstate[p] = "wait" /\ pstate'[p] = "current") => is_on /\ is_on'
          /\ \A e \in events \ events' :
               (~e.cancelled /\ pstate[e.proc] = "wait" /\ ~is_on) =>
                  /\ pstate'[e.proc] = "wait" /\ cur' = 0
                  /\ \E x \in waiting'["s"] :
                        /\ x[2] = e.proc
                        /\ \A y \in waiting["s"] : y[1] < x[1]
          /\ (woken' # woken /\ woken # <<>>) =>
                SubSeq(woken', 1, Len(woken) - 1) = Tail(woken)
         ]_vars

\* the second of two waiters has been let through by a second turn_on, the
\* first one having turned the signal off
C22_Witness ==
    /\ Len(woken) = 1 /\ passed = woken
    /\ \E p \in Procs : p # woken[1] /\ pstate[p] = "dead"
    /\ pstate[woken[1]] = "current" /\ is_on

\* C23: the list select returns to its caller holds at least one signal
C23_SelectReturnsASignal == selected # "empty"

\* C24: select with a timeout suspends its caller, which is then resumed once,
\* by a signal that turns on or by Timeout at the time of the call + timeout:
\* the call raises nothing at once and leaves the caller blocked in select
C24_SelectTimeoutBlocksCaller ==
    [][\A p \in Procs : \A timeout \in 0..MaxTime :
          SelectTimeout(p, timeout) =>
             /\ err' = "none"
             /\ pstate'[p] = "select"
             /\ \E e \in events' : e.ts = ts_now + timeout /\ ~e.cancelled
      ]_vars

\* C25: a run(duration) started at clock T that its own stop event ends has
\* executed every uncancelled event due before T + duration, none due after,
\* and returns with the clock at T + duration
C25_FiniteRunEndsAtDuration ==
    [][(RunExit /\ stop_id # NoId /\ lastEv.kind = "stop" /\ lastEv.id = stop_id) =>
          /\ ts_now' = lastEv.ts
          /\ \A e \in events : ~e.cancelled => e.ts >= lastEv.ts
      ]_vars

\* C26: a stop event that fires is the one of the run() in progress: the stop
\* event of a run that has ended otherwise has been cancelled and stops no
\* later run
C26_StopEventEndsOwnRunOnly ==
    [][\A e \in events \ events' :
          (e.kind = "stop" /\ ~e.cancelled) => (ctl = "run" /\ e.id = stop_id)
      ]_vars

\* C27: stop() called by the function of an event leaves that function
\* running and changes nothing but is_running; once the function has given
\* control back, run() executes no further event and returns with is_running
\* false, every pending event being kept; a run() in progress pops the
\* smallest pending event, so that a later run() executes them in order
C27_StopEndsRunKeepsPending ==
    [][/\ (cur # 0 /\ Stop) =>
             /\ ~is_running'
             /\ UNCHANGED <<cur, pstate, events, ctl, ts_now, lastEv>>
       /\ (ctl = "run" /\ cur = 0 /\ ~is_running) =>
             /\ ctl' = "top" /\ ~is_running'
             /\ UNCHANGED <<cur, pstate, ts_now, lastEv>>
             /\ Cardinality(events') = Cardinality(events)
             /\ \A e \in events : e.id # stop_id => e \in events'
       /\ (ctl = "run" /\ cur = 0 /\ is_running /\ events # {}) =>
             \E e \in events :
                /\ \A f \in events : f = e \/ Lt(e, f)
                /\ e \notin events'
                /\ ~e.cancelled => lastEv' = e
      ]_vars

\* an event's function has called stop() during a run() without duration and
\* has given control back, events being pending
C27_Witness ==
    /\ ctl = "run" /\ cur = 0 /\ ~is_running /\ stop_id = NoId
    /\ \E e \in events : ~e.cancelled /\ e.kind = "switch"

\* C28: a cancelled event, when popped, is only removed from the heap: no
\* function is called and the clock, the identifiers and every process are
\* unchanged; cancelling touches no other event, so the others are popped at
\* the time and in the order they would have been without it; cancelling an
\* identifier that is not pending changes nothing
C28_CancelledEventIsInert ==
    [][/\ \A e \in events \ events' :
             e.cancelled =>
                /\ events' = events \ {e}
                /\ UNCHANGED <<ts_now, lastEv, counter, is_running, cur, pstate,
                               stop_id>>
       /\ \A id \in 0..MaxCounter :
             Cancel(id) =>
                /\ \A e \in events : e.id # id => e \in events'
                /\ Cardinality(events') = Cardinality(events)
                /\ UNCHANGED <<ts_now, lastEv, counter, is_running, cur, pstate>>
                /\ (\A e \in events : e.id # id \/ e.cancelled) => events' = events
      ]_vars

\* the first event scheduled has been cancelled and popped by step(), nothing
\* having been executed, while a later event is still pending
C28_Witness ==
    /\ lastEv = NoEvent /\ counter >= 2
    /\ \A g \in events : g.id # 0
    /\ \E f \in events : ~f.cancelled /\ f.ts > ts_now
    /\ AtTop

\* C29: pause() leaves no event pending for its caller, and only resume()
\* (called on it, or by Queue.pop for an entry it has in a queue) or
\* interrupt(), which raises in it, schedules an event for a paused process,
\* which stays paused until that event is executed; a run() over an empty
\* heap changes neither the clock nor any process; resume() schedules one
\* continuation, at the current time, and when it is executed the process
\* runs again, the clock being the one at which resume() was called
C29_PausedUntilResumed ==
    [][\A p \in Procs :
          /\ Pause(p) => \A e \in events' : e.proc = p => e.cancelled
          /\ (pstate[p] = "pause" /\ \E e \in events' \ events : e.proc = p) =>
                Resume(p) \/ Interrupt(p) \/ (QPop /\ Peek("q")[2] = p)
          /\ (pstate[p] = "pause" /\ pstate'[p] # "pause") =>
                \E e \in events \ events' :
                   /\ e.proc = p /\ ~e.cancelled /\ IsHeapMin(e)
                   /\ e.kind = "switch" =>
                        /\ pstate'[p] = "current" /\ cur' = p
                        /\ ts_now' = e.ts
                        /\ \A f \in events' : f.proc = p => f.cancelled
          /\ Resume(p) =>
                /\ Cardinality(events' \ events) = 1
                /\ \A e \in events' \ events :
                      e.proc = p /\ e.kind = "switch" /\ e.ts = ts_now
                /\ pstate'[p] = "pause"
          /\ (ctl = "run" /\ events = {} /\ cur = 0) =>
                UNCHANGED <<ts_now, pstate, events>> /\ ctl' = "top"
      ]_vars

\* C30: tear-down leaves the heap empty and has terminated every process
\* that was suspended, whether in advance or parked, with no event pending,
\* by pause, Queue.join, Signal.wait or a blocking Resource.take
C30_TearDownEndsEverySuspended ==
    [][Clear =>
          /\ events' = {}
          /\ \A p \in Procs : Suspended(p) => pstate'[p] = "dead"
      ]_vars

\* C31: an exception other than Interrupt that the body of a process lets
\* out ends the process and is raised to the caller of run() or step(), which
\* is left at once: the pending events stay pending and none is executed
\* before the main program makes another call
C31_BodyExceptionLeavesRun ==
    [][\A p \in Procs :
          Raise(p) =>
             /\ err' = "Exception"
             /\ ctl' = "top" /\ cur' = 0
             /\ pstate'[p] = "dead"
             /\ UNCHANGED <<events, lastEv, ts_now, counter>>
      ]_vars

\* a body has let an exception out of run() while events were pending
C31_Witness ==
    /\ err = "Exception" /\ ctl = "top" /\ is_running
    /\ \E e \in events : ~e.cancelled

\* C32: each time the advance of its loop returns, the body made by
\* happens(intervals) adds one process, at its start time + the intervals
\* consumed so far, and it ends once the intervals are exhausted
C32_HappensAddsAtEachInterval ==
    [][\A h \in Procs :
          HappensWake(h) =>
             /\ \E p \in Procs :
                   /\ pstate[p] = "unborn" /\ pstate'[p] = "initial"
                   /\ \E e \in events' \ events :
                         e.proc = p /\ e.kind = "switch" /\ e.ts = hdue
             /\ ts_now = hdue
             /\ hrest = <<>> <=> pstate'[h] = "dead"
      ]_vars

\* C33: at most one uncancelled pending event targets any one process
C33_OnePendingEventPerProcess ==
    \A p \in Procs : Cardinality({e \in events : e.proc = p /\ ~e.cancelled}) <= 1

\* processes that suspend in advance, pause and Queue.join, are resumed or
\* interrupted, and whose bodies end by returning
NextSuspend ==
    \/ AddIn(0)
    \/ Run(FALSE, 0)
    \/ RunLoop
    \/ RunExit
    \/ Step
    \/ \E p \in Procs : \E d \in {0, 1} : Advance(p, d)
    \/ \E p \in Procs : Pause(p)
    \/ \E p \in Procs : Return(p)
    \/ \E t \in Procs : Resume(t)
    \/ \E t \in Procs : Interrupt(t)
    \/ \E p \in Procs : QJoin(p)
    \/ QPop

SpecSuspend == Init /\ [][NextSuspend]_vars

NextWake ==
    \/ AddIn(0)
    \/ Run(FALSE, 0)
    \/ RunLoop
    \/ RunExit
    \/ \E p \in Procs : Return(p)
    \/ \E p \in Procs : QJoin(p)
    \/ QPop
    \/ TurnOn
    \/ TurnOff
    \/ \E p \in Procs : Wait(p)
    \/ \E p \in Procs : \E n \in 1..NumInstances : Take(p, n)
    \/ \E p \in Procs : \E n \in 1..NumInstances : Release(p, n)

SpecWake == Init /\ [][NextWake]_vars

\* C35: a step that wakes a parked process (Queue.pop, Signal.turn_on,
\* Resource.release) only schedules an event for it: the process stays
\* parked and does not become the running one in that step; the event has the
\* current virtual time and is ordered after every pending event of that
\* timestamp.  When the event is executed no event of its timestamp that was
\* scheduled before it is still pending, and the clock is the timestamp the
\* wake-up was made at
C35_WokenRunsInLaterEvent ==
    /\ [][\A e \in events' \ events :
             (e.kind = "switch" /\ pstate[e.proc] \in {"join", "wait", "take"}) =>
                /\ pstate'[e.proc] = pstate[e.proc]
                /\ cur' = cur
                /\ e.ts = ts_now
                /\ \A f \in events : f.ts = e.ts => Lt(f, e)
         ]_vars
    /\ [][\A e \in events \ events' :
             (/\ ~e.cancelled /\ e.kind = "switch"
              /\ pstate[e.proc] \in {"join", "wait", "take"}) =>
                /\ ts_now' = e.ts
                /\ \A f \in events' : ~(f.ts = e.ts /\ f.id < e.id)
         ]_vars

\* the first process, which event 0 started, had parked and runs again: the
\* last event executed is the switch that resumed it, scheduled after at
\* least three other events, at the current virtual time
C35_Witness ==
    /\ pstate[1] = "current" /\ cur = 1
    /\ lastEv.kind = "switch" /\ lastEv.proc = 1 /\ lastEv.id >= 3
    /\ lastEv.ts = ts_now

\* C36: a release that changes the waiting queue removes exactly its head,
\* schedules the resumption of that process, and the free count after the
\* release is at least the count the head process recorded when it blocked;
\* a release that wakes nobody leaves queue, heap and counter unchanged
C36_ReleaseWakesHeadOnlyIfItFits ==
    [][\A p \in Procs : \A n \in Counts :
          Release(p, n) =>
             IF waiting'["r"] # waiting["r"] \/ events' # events
             THEN /\ ~IsEmpty("r")
                  /\ waiting'["r"] = waiting["r"] \ {Peek("r")}
                  /\ required[Peek("r")[2]] >= 1
                  /\ required[Peek("r")[2]] <= free'
                  /\ pstate[Peek("r")[2]] = "take" => pdata[Peek("r")[2]] <= free'
                  /\ events' = Pushed(events, 0, "switch", Peek("r")[2])
             ELSE UNCHANGED <<waiting, events, counter>>
      ]_vars

\* a release has woken the head: it is still parked in take, no longer
\* queued, its resumption is pending and its recorded count fits
C36_Witness ==
    \E p \in Procs :
        /\ pstate[p] = "take" /\ p \notin QueuedIn(waiting, "r")
        /\ required[p] >= 1 /\ required[p] <= free
        /\ \E e \in events : e.proc = p /\ e.kind = "switch" /\ ~e.cancelled

\* C37: no process has more than one entry in the waiting structures (the
\* queues, the signal's queue, the resource's queue) taken together, and a
\* process parked in join, wait or take that nothing has woken yet has
\* exactly one
C37_ParkedInExactlyOneStructure ==
    \A p \in Procs :
        LET entries == {qx \in Queues \X UNION {waiting[q] : q \in Queues} :
                           qx[2] \in waiting[qx[1]] /\ qx[2][2] = p}
        IN /\ Cardinality(entries) <= 1
           /\ (/\ pstate[p] \in {"join", "wait", "take"}
               /\ \A e \in events : e.proc = p => e.cancelled)
                 => Cardinality(entries) = 1

\* C38: what the simulator does next is a function of its state, so equal
\* sequences of calls give equal runs: the pending events have distinct
\* identifiers, any two of them are ordered one way and not the other, hence
\* exactly one pending event is the heap's minimum; each iteration of run's
\* loop and each step() pops that event and no other, and sets the clock to
\* the value determined by that event and the clock before
C38_Deterministic ==
    /\ [](/\ \A e, f \in events : e.id = f.id => e = f
          /\ \A e, f \in events : e # f => (Lt(e, f) <=> ~Lt(f, e))
          /\ events # {} => Cardinality({e \in events : IsHeapMin(e)}) = 1)
    /\ [][(RunLoop \/ Step) =>
             LET m == CHOOSE e \in events : IsHeapMin(e)
             IN /\ {f.id : f \in events'} = {f.id : f \in events} \ {m.id}
                /\ ts_now' = ClockAfterPop(m, ts_now)
                /\ lastEv' = IF m.cancelled THEN lastEv ELSE m
         ]_vars

\* a tie has been broken: the last event executed had the timestamp of an
\* event that is still pending, which was scheduled after it
C38_Witness ==
    /\ lastEv.id >= 0
    /\ \E e \in events : e.ts = lastEv.ts /\ e.id > lastEv.id /\ ~e.cancelled

\* a wake-up can still be scheduled for every process parked in the
\* resource's queue once k more events have been scheduled
Reserve(k) == counter + k + Cardinality(waiting["r"]) <= MaxCounter

\* sim.add(body) of a body that uses the resource
LiveAdd == Reserve(1) /\ AddIn(0)

\* the body advances while it holds instances
LiveAdvance(p) == usage[p] > 0 /\ Reserve(1) /\ \E d \in {0, 1} : Advance(p, d)

\* the body takes instances when it holds none
LiveTake(p, n) == usage[p] = 0 /\ (free < n => Reserve(1)) /\ Take(p, n)

\* the body releases all it holds
LiveRelease(p) == usage[p] > 0 /\ Release(p, usage[p])

\* the body returns, holding nothing
LiveReturn(p) == usage[p] = 0 /\ Return(p)

\* processes that take instances of a FIFO Resource, keep them over some
\* advances, release them all and return; nothing interrupts them
NextLive ==
    \/ LiveAdd
    \/ Run(FALSE, 0)
    \/ RunLoop
    \/ RunExit
    \/ \E p \in Procs : LiveAdvance(p)
    \/ \E p \in Procs : \E n \in 1..NumInstances : LiveTake(p, n)
    \/ \E p \in Procs : LiveRelease(p)
    \/ \E p \in Procs : LiveReturn(p)

\* run's loop goes on while events are pending; a body that holds instances
\* comes to release them and a body comes to its end
LiveFairness ==
    /\ WF_vars(RunLoop)
    /\ \A p \in Procs : SF_vars(LiveRelease(p))
    /\ \A p \in Procs : SF_vars(LiveReturn(p))

SpecLive == Init /\ [][NextLive]_vars /\ LiveFairness

C40_ReleaseWakesAtMostTheHead ==
    [][\A p \in Procs : \A n \in Counts :
          Release(p, n) =>
             /\ Cardinality(events' \ events) <= 1
             /\ Cardinality(waiting["r"] \ waiting'["r"]) <= 1
             /\ waiting'["r"] \subseteq waiting["r"]
             /\ \A x \in waiting["r"] :
                   (\E y \in waiting["r"] : y[1] < x[1]) => x \in waiting'["r"]
             /\ \A x \in waiting["r"] \ waiting'["r"] :
                   \A e \in events' \ events : e.kind = "switch" /\ e.proc = x[2]
             /\ Cardinality(events' \ events) = Cardinality(waiting["r"] \ waiting'["r"])
      ]_vars

\* a release has woken the head and left the entry behind it in the queue:
\* the running process has released and thereby popped an entry of its own
\* (its resumption is pending while it runs), and the other process, which
\* joined after that entry, is still parked in take and queued
C40_Witness ==
    \E w \in Procs : \E o \in Procs \ {w} :
        /\ cur = w /\ pstate[w] = "current"
        /\ \E e \in events : e.proc = w /\ e.kind = "switch" /\ ~e.cancelled
        /\ w \notin QueuedIn(waiting, "r")
        /\ pstate[o] = "take" /\ o \in QueuedIn(waiting, "r")
        /\ \A e \in events : e.proc # o

====
